---- MODULE Spec2Model ----
(***************************************************************************)
(* Model of the resilience layer of the repository:                        *)
(*   - RetryManager  (src/unnamed/part_002, lines 770-1055)                *)
(*   - CacheManager  (src/unnamed/part_003, lines 23-210)                  *)
(* Time is the value of Date.now() in milliseconds.  Code between two      *)
(* awaits runs to completion, so every action is one such run.             *)
(***************************************************************************)
EXTENDS Integers, Sequences, FiniteSets, TLC

VARIABLES
    now,            \* Date.now()
    circuitStates,  \* RetryManager.circuitStates: key -> {failures, lastFailure, state}
    calls,          \* the retryWithCircuitBreaker calls in flight, one record per caller
    consecFailed,   \* history: per key, failed outcomes recorded since the last successful one
    classify,       \* the error handed to defaultRetryCondition and its verdict
    cache,          \* CacheManager.cache: the entries in the Map's insertion order
    stats,          \* CacheManager.stats: hits and misses
    maxSize,        \* CacheManager.maxSize
    ret,            \* what the last cache operation returned
    exported,       \* the data returned by the last export, in key order
    metrics,        \* PerformanceMonitor.metrics
    errors,         \* PerformanceMonitor.errors
    report,         \* what the last query of the monitor returned
    errorQueue,     \* ErrorHandler.errorQueue
    handled,        \* what the last call of ErrorHandler.handle did
    probe           \* the inputs and results of a function applied on its own

retryVars == <<circuitStates, calls, consecFailed>>
cacheVars == <<cache, stats, maxSize, ret, exported>>
monitorVars == <<metrics, errors, report>>
handlerVars == <<errorQueue, handled, probe>>
vars == <<now, circuitStates, calls, consecFailed, classify, cache, stats, maxSize, ret,
         exported, metrics, errors, report, errorQueue, handled, probe>>

----------------------------------------------------------------------------
(* Bounds of the model *)

MaxAttemptsBound == 3
MaxFailures == 6
MaxCacheNow == 2
MaxSizeArg == 2
MaxGets == 2

(* Program constants *)

CooldownMs == 60000
FailureThreshold == 5

Callers == {"A", "B"}
Keys == {"k1", "k2"}
\* the calls of Spec all go to one circuit
SoloKeys == {"k1"}

\* The clock values the model visits: a failure at 0, the last millisecond of
\* its cooldown and the first one after it, and the same for a failure at 60001
ClockValues == {0, CooldownMs, CooldownMs + 1, 2 * CooldownMs + 1, 2 * CooldownMs + 2}

----------------------------------------------------------------------------
(* Text: a message is a sequence of one-character strings *)

UpperChars == <<"A","B","C","D","E","F","G","H","I","J","K","L","M",
                "N","O","P","Q","R","S","T","U","V","W","X","Y","Z">>
LowerChars == <<"a","b","c","d","e","f","g","h","i","j","k","l","m",
                "n","o","p","q","r","s","t","u","v","w","x","y","z">>

ToLowerChar(c) ==
    IF \E i \in 1..Len(UpperChars) : UpperChars[i] = c
    THEN LowerChars[CHOOSE i \in 1..Len(UpperChars) : UpperChars[i] = c]
    ELSE c

toLowerCase(s) == [i \in 1..Len(s) |-> ToLowerChar(s[i])]

includes(s, pat) ==
    \E i \in 1..(Len(s) - Len(pat) + 1) : SubSeq(s, i, i + Len(pat) - 1) = pat

----------------------------------------------------------------------------
(* Errors: an object that may carry a numeric status and/or a message *)

NoMessage == << >>

MkError(hasStatus, status, hasMessage, message) ==
    [hasStatus |-> hasStatus, status |-> status,
     hasMessage |-> hasMessage, message |-> message]

\* JavaScript truthiness of error?.status and error?.message
StatusTruthy(error) == error.hasStatus /\ error.status # 0
MessageTruthy(error) == error.hasMessage /\ error.message # << >>

retryableStatuses == {408, 429, 500, 502, 503, 504}

retryableMessages ==
    { <<"t","i","m","e","o","u","t">>,
      <<"n","e","t","w","o","r","k">>,
      <<"c","o","n","n","e","c","t","i","o","n">>,
      <<"r","a","t","e"," ","l","i","m","i","t">>,
      <<"s","e","r","v","e","r"," ","e","r","r","o","r">>,
      <<"s","e","r","v","i","c","e"," ","u","n","a","v","a","i","l","a","b","l","e">> }

\* the message is matched without lower-casing it
defaultRetryConditionCaseSensitive(error) ==
    IF StatusTruthy(error)
    THEN error.status \in retryableStatuses
    ELSE IF MessageTruthy(error)
         THEN \E msg \in retryableMessages : includes(error.message, msg)
         ELSE FALSE

defaultRetryCondition(error) ==
    IF StatusTruthy(error)
    THEN error.status \in retryableStatuses
    ELSE IF MessageTruthy(error)
         THEN \E msg \in retryableMessages : includes(toLowerCase(error.message), msg)
         ELSE FALSE

----------------------------------------------------------------------------
(* RetryConfig and calculateDelay *)

BaseDelays == {100}
MaxDelays == {100, 30000}
BackoffFactors == {2}

\* finalConfig = { ...defaultConfig, ...config }: every field is set
Configs ==
    [maxAttempts : 1..MaxAttemptsBound, baseDelay : BaseDelays, maxDelay : MaxDelays,
     backoffFactor : BackoffFactors, jitter : BOOLEAN, retryCondition : {"default"}]

DefaultConfig ==
    [maxAttempts |-> 1, baseDelay |-> 100, maxDelay |-> 100,
     backoffFactor |-> 2, jitter |-> FALSE, retryCondition |-> "default"]

\* Caller A passes any configuration; caller B makes single-attempt calls
ConfigsOf(c) == IF c = "A" THEN Configs ELSE {DefaultConfig}

\* (Math.random() - 0.5) * 2 lies in [-1, 1); the draws are its value in tenths
JitterDraws == {-10, 0, 9}

RECURSIVE Pow(_, _)
Pow(b, e) == IF e <= 0 THEN 1 ELSE b * Pow(b, e - 1)

Min(a, b) == IF a < b THEN a ELSE b
Max(a, b) == IF a > b THEN a ELSE b

\* the cap by maxDelay is left out
calculateDelayUncapped(attempt, config, draw) ==
    LET backoff == config.baseDelay * Pow(config.backoffFactor, attempt - 1)
        jitterAmount10 == backoff
        jittered == IF config.jitter THEN backoff + (draw * jitterAmount10) \div 100
                    ELSE backoff
    IN  Max(jittered, 0)

\* the jitter is 20% of the delay in place of 10%
calculateDelayWideJitter(attempt, config, draw) ==
    LET backoff == config.baseDelay * Pow(config.backoffFactor, attempt - 1)
        capped == Min(backoff, config.maxDelay)
        jittered == IF config.jitter THEN capped + (draw * 2 * capped) \div 100
                    ELSE capped
    IN  Max(jittered, 0)

\* jitterAmount = delay * 0.1 and delay += draw/10 * jitterAmount; the delays of
\* the model are multiples of 100, so the division is exact
calculateDelay(attempt, config, draw) ==
    LET backoff == config.baseDelay * Pow(config.backoffFactor, attempt - 1)
        capped == Min(backoff, config.maxDelay)
        jittered == IF config.jitter THEN capped + (draw * capped) \div 100
                    ELSE capped
    IN  Max(jittered, 0)

shouldRetryOf(config, error) ==
    IF config.retryCondition = "default" THEN defaultRetryCondition(error) ELSE FALSE

----------------------------------------------------------------------------
(* Circuit breaker *)

EmptyMap == [k \in {} |-> 0]

MapSet(m, key, value) == [k \in (DOMAIN m) \cup {key} |-> IF k = key THEN value ELSE m[k]]

\* >= in place of >: the circuit half-opens when exactly the cooldown has elapsed
isCircuitOpenAtBoundary(cs, key, t) ==
    IF key \notin DOMAIN cs THEN [open |-> FALSE, states |-> cs]
    ELSE IF cs[key].state = "open" /\ t - cs[key].lastFailure >= CooldownMs
         THEN [open |-> FALSE, states |-> [cs EXCEPT ![key].state = "half-open"]]
         ELSE [open |-> cs[key].state = "open", states |-> cs]

\* a rejection re-arms the cooldown: lastFailure is set to the time of the check
isCircuitOpenRearms(cs, key, t) ==
    IF key \notin DOMAIN cs THEN [open |-> FALSE, states |-> cs]
    ELSE IF cs[key].state = "open" /\ t - cs[key].lastFailure > CooldownMs
         THEN [open |-> FALSE, states |-> [cs EXCEPT ![key].state = "half-open"]]
         ELSE IF cs[key].state = "open"
              THEN [open |-> TRUE, states |-> [cs EXCEPT ![key].lastFailure = t]]
              ELSE [open |-> FALSE, states |-> cs]

\* open: the value returned; states: the circuit map afterwards (an open
\* circuit past its cooldown is set to half-open)
isCircuitOpen(cs, key, t) ==
    IF key \notin DOMAIN cs THEN [open |-> FALSE, states |-> cs]
    ELSE IF cs[key].state = "open" /\ t - cs[key].lastFailure > CooldownMs
         THEN [open |-> FALSE, states |-> [cs EXCEPT ![key].state = "half-open"]]
         ELSE [open |-> cs[key].state = "open", states |-> cs]

\* the phase is closed again but the failure count is kept
recordSuccessKeepsCount(cs, key) ==
    IF key \in DOMAIN cs
    THEN [cs EXCEPT ![key].state = "closed"]
    ELSE cs

recordSuccess(cs, key) ==
    IF key \in DOMAIN cs
    THEN [cs EXCEPT ![key].failures = 0, ![key].state = "closed"]
    ELSE cs

\* > in place of >=: the circuit opens one failure late
recordFailureOpensLate(cs, key, t) ==
    LET old == IF key \in DOMAIN cs THEN cs[key]
               ELSE [failures |-> 0, lastFailure |-> t, state |-> "closed"]
        failures == old.failures + 1
    IN  MapSet(cs, key, [failures |-> failures, lastFailure |-> t,
                         state |-> IF failures > FailureThreshold THEN "open" ELSE old.state])

recordFailure(cs, key, t) ==
    LET old == IF key \in DOMAIN cs THEN cs[key]
               ELSE [failures |-> 0, lastFailure |-> t, state |-> "closed"]
        failures == old.failures + 1
    IN  MapSet(cs, key, [failures |-> failures, lastFailure |-> t,
                         state |-> IF failures >= FailureThreshold THEN "open" ELSE old.state])

\* a key without a circuit state is treated as closed
Phase(cs, key) == IF key \in DOMAIN cs THEN cs[key].state ELSE "closed"
Failures(cs, key) == IF key \in DOMAIN cs THEN cs[key].failures ELSE 0

----------------------------------------------------------------------------
(* The calls: retryWithCircuitBreaker around execute *)

\* what the operation fails with: { status: 503 } is retried; { status: 400,
\* message: "connection" } is not
Errors ==
    { MkError(TRUE, 503, FALSE, NoMessage),
      MkError(TRUE, 400, TRUE, <<"c","o","n","n","e","c","t","i","o","n">>) }

NoError == MkError(FALSE, 0, FALSE, NoMessage)

\* a caller that has no call in flight.  The fields success .. error are the
\* RetryResult once execute has returned (its attempts are the attempts field);
\* the wall-clock fields (RetryAttempt.timestamp, RetryResult.totalTime) are
\* not kept: no branch reads them.  probe is history: the circuit check of this
\* call moved the circuit from open to half-open
IdleCall ==
    [pc |-> "idle", key |-> "k1", config |-> DefaultConfig,
     attempt |-> 0, attempts |-> << >>, invoked |-> 0, slept |-> << >>, wakeAt |-> 0,
     success |-> FALSE, hasResult |-> FALSE, result |-> "", hasError |-> FALSE,
     error |-> NoError, probe |-> FALSE]

Startable == {"idle", "rejected"}
InFlight == {"awaitOp", "sleeping", "returned", "unexpectedEnd"}

\* what the last cache operation returned, when it was a get or a has: found
\* is has's boolean and whether get returned a value
NoRet == [op |-> "none", found |-> FALSE, value |-> ""]

RetryInit ==
    /\ circuitStates = EmptyMap
    /\ calls = [c \in Callers |-> IdleCall]
    /\ consecFailed = [k \in Keys |-> 0]

CacheInit ==
    /\ cache = << >>
    /\ stats = [hits |-> 0, misses |-> 0]
    /\ ret = NoRet
    /\ exported = << >>

NoReport == [op |-> "none"]

MonitorInit ==
    /\ metrics = << >>
    /\ errors = << >>
    /\ report = NoReport

NotHandled == [outcome |-> "none"]
NoProbe == [op |-> "none"]

HandlerInit ==
    /\ errorQueue = << >>
    /\ handled = NotHandled
    /\ probe = NoProbe

Init ==
    /\ now = 0
    /\ RetryInit
    /\ classify = [error |-> NoError, done |-> FALSE, retry |-> FALSE]
    /\ CacheInit
    /\ MonitorInit
    /\ HandlerInit
    /\ maxSize = 1

\* retryWithCircuitBreaker up to the first await: the circuit check, then
\* execute's first call of the operation.  MaxFailures caps the failure counter.
Start(c, key, config) ==
    /\ calls[c].pc \in Startable
    /\ Failures(circuitStates, key) < MaxFailures
    /\ LET check == isCircuitOpen(circuitStates, key, now)
       IN  /\ circuitStates' = check.states
           /\ calls' = [calls EXCEPT ![c] =
                 IF check.open
                 THEN [IdleCall EXCEPT !.pc = "rejected", !.key = key]
                 ELSE [IdleCall EXCEPT !.pc = "awaitOp", !.key = key, !.config = config,
                                       !.attempt = 1, !.invoked = 1,
                                       !.probe = (Phase(circuitStates, key) = "open")]]
    /\ UNCHANGED <<now, consecFailed, classify, cacheVars, monitorVars, handlerVars>>

\* the operation resolves: execute returns the successful outcome
OpSucceed(c) ==
    /\ calls[c].pc = "awaitOp"
    /\ calls' = [calls EXCEPT ![c].pc = "returned", ![c].success = TRUE,
                              ![c].hasResult = TRUE, ![c].result = "ok"]
    /\ UNCHANGED <<now, circuitStates, consecFailed, classify, cacheVars, monitorVars, handlerVars>>

\* isLastAttempt is true one attempt early
stopsRetryingEarly(config, attempt, error) ==
    LET shouldRetry == shouldRetryOf(config, error)
        isLastAttempt == attempt >= config.maxAttempts - 1
    IN  ~shouldRetry \/ isLastAttempt

\* the verdict of retryCondition is not consulted
stopsRetryingIgnoresCondition(config, attempt, error) ==
    attempt = config.maxAttempts

\* the last attempt is not recognised
stopsRetryingNoLast(config, attempt, error) ==
    ~shouldRetryOf(config, error)

\* the condition that ends the retry loop with a failed outcome
stopsRetrying(config, attempt, error) ==
    LET shouldRetry == shouldRetryOf(config, error)
        isLastAttempt == attempt = config.maxAttempts
    IN  ~shouldRetry \/ isLastAttempt

\* the operation rejects: the catch block of execute
OpFail(c, error, draw) ==
    /\ calls[c].pc = "awaitOp"
    /\ LET call == calls[c]
           attemptRecord == [attempt |-> call.attempt, error |-> error, delay |-> 0]
           delay == calculateDelay(call.attempt, call.config, draw)
       IN  calls' = [calls EXCEPT ![c] =
             IF stopsRetrying(call.config, call.attempt, error)
             THEN [call EXCEPT !.pc = "returned", !.success = FALSE,
                               !.hasError = TRUE, !.error = error,
                               !.attempts = Append(call.attempts, attemptRecord)]
             ELSE [call EXCEPT !.pc = "sleeping",
                               !.attempts = Append(call.attempts,
                                                   [attemptRecord EXCEPT !.delay = delay]),
                               !.slept = Append(call.slept, delay),
                               !.wakeAt = now + delay]]
    /\ UNCHANGED <<now, circuitStates, consecFailed, classify, cacheVars, monitorVars, handlerVars>>

\* the timer of sleep fires: the loop goes on with the next attempt
Wake(c) ==
    /\ calls[c].pc = "sleeping"
    /\ now >= calls[c].wakeAt
    /\ LET next == calls[c].attempt + 1
       IN  calls' = [calls EXCEPT ![c] =
             IF next <= calls[c].config.maxAttempts
             THEN [calls[c] EXCEPT !.pc = "awaitOp", !.attempt = next, !.wakeAt = 0,
                                   !.invoked = calls[c].invoked + 1]
             ELSE [calls[c] EXCEPT !.pc = "unexpectedEnd", !.attempt = next,
                                   !.wakeAt = 0]]
    /\ UNCHANGED <<now, circuitStates, consecFailed, classify, cacheVars, monitorVars, handlerVars>>

\* retryWithCircuitBreaker after execute has settled: the outcome is recorded
\* on the circuit and handed to the caller, whose slot is free again
Finish(c) ==
    /\ calls[c].pc \in {"returned", "unexpectedEnd"}
    /\ LET key == calls[c].key
           ok == calls[c].pc = "returned" /\ calls[c].success
       IN  /\ circuitStates' = IF ok THEN recordSuccess(circuitStates, key)
                               ELSE recordFailure(circuitStates, key, now)
           /\ consecFailed' = [consecFailed EXCEPT ![key] = IF ok THEN 0 ELSE @ + 1]
           /\ calls' = [calls EXCEPT ![c] = IdleCall]
    /\ UNCHANGED <<now, classify, cacheVars, monitorVars, handlerVars>>

Tick(t) ==
    /\ t > now
    /\ now' = t
    /\ UNCHANGED <<retryVars, classify, cacheVars, monitorVars, handlerVars>>

Next ==
    \/ \E c \in Callers, key \in SoloKeys : \E config \in ConfigsOf(c) : Start(c, key, config)
    \/ \E c \in Callers : OpSucceed(c)
    \/ \E c \in Callers, error \in Errors, draw \in JitterDraws : OpFail(c, error, draw)
    \/ \E c \in Callers : Wake(c)
    \/ \E c \in Callers : Finish(c)
    \/ \E t \in ClockValues : Tick(t)

Spec == Init /\ [][Next]_vars

----------------------------------------------------------------------------
(* Claims about execute *)

Returned(c) == calls[c].pc = "returned"

AllRetryable(c) ==
    \A i \in 1..Len(calls[c].attempts) :
        shouldRetryOf(calls[c].config, calls[c].attempts[i].error)

\* C1: with maxAttempts = n, an operation that always fails with a retryable
\* error is invoked exactly n times and execute returns a failed outcome with
\* n attempt records; one that fails k < n times and then succeeds is invoked
\* k + 1 times and the outcome is successful with k records, numbered 1..k.
C1_AttemptCounts ==
    \A c \in Callers :
        Returned(c) =>
            LET n == calls[c].config.maxAttempts
                k == Len(calls[c].attempts)
            IN  /\ (~calls[c].success /\ AllRetryable(c)) =>
                        (calls[c].invoked = n /\ k = n)
                /\ calls[c].success => (k < n /\ calls[c].invoked = k + 1)
                /\ \A i \in 1..k : calls[c].attempts[i].attempt = i

C1_Witness ==
    \E c \in Callers :
        /\ Returned(c) /\ ~calls[c].success /\ AllRetryable(c)
        /\ calls[c].config.maxAttempts = 3
        /\ Len(calls[c].attempts) = 3 /\ calls[c].invoked = 3

\* C2: when the first failure is an error the retry condition rejects, execute
\* returns a failed outcome with exactly one attempt record, the operation was
\* invoked once and nothing was waited, whatever maxAttempts is; and no delay
\* is waited after the failure of the last allowed attempt.
C2_FailFast ==
    \A c \in Callers :
        /\ (Returned(c) /\ ~calls[c].success) =>
              /\ ~shouldRetryOf(calls[c].config, calls[c].attempts[1].error) =>
                    /\ Len(calls[c].attempts) = 1
                    /\ calls[c].invoked = 1
                    /\ calls[c].slept = << >>
              /\ Len(calls[c].slept) = Len(calls[c].attempts) - 1
        /\ calls[c].pc = "sleeping" => calls[c].attempt < calls[c].config.maxAttempts

C2_Witness ==
    \E c \in Callers :
        /\ Returned(c) /\ ~calls[c].success
        /\ calls[c].config.maxAttempts = 3
        /\ Len(calls[c].attempts) = 1
        /\ ~shouldRetryOf(calls[c].config, calls[c].attempts[1].error)
        /\ calls[c].slept = << >>

ExpectedDelay(config, i) ==
    Min(config.baseDelay * Pow(config.backoffFactor, i - 1), config.maxDelay)

\* C3 as stated: with jitter disabled, the delays of all the attempt records of
\* the returned outcome are non-decreasing and record i holds
\* min(baseDelay * backoffFactor^(i-1), maxDelay).
C3_AllRecordsHoldBackoff ==
    \A c \in Callers :
        (Returned(c) /\ ~calls[c].config.jitter) =>
            /\ \A i \in 1..Len(calls[c].attempts) :
                   calls[c].attempts[i].delay = ExpectedDelay(calls[c].config, i)
            /\ \A i \in 1..(Len(calls[c].attempts) - 1) :
                   calls[c].attempts[i].delay <= calls[c].attempts[i + 1].delay

\* the records that were followed by a wait: all of a successful outcome, all
\* but the last of a failed one
WaitedRecords(c) ==
    IF calls[c].success THEN Len(calls[c].attempts) ELSE Len(calls[c].attempts) - 1

\* C3 (amended): with jitter disabled, the records that were followed by a retry
\* hold min(baseDelay * backoffFactor^(i-1), maxDelay) and are non-decreasing;
\* the last record of a failed outcome holds delay 0.
C3_WaitedRecordsHoldBackoff ==
    \A c \in Callers :
        (Returned(c) /\ ~calls[c].config.jitter) =>
            /\ \A i \in 1..WaitedRecords(c) :
                   calls[c].attempts[i].delay = ExpectedDelay(calls[c].config, i)
            /\ \A i \in 1..(WaitedRecords(c) - 1) :
                   calls[c].attempts[i].delay <= calls[c].attempts[i + 1].delay
            /\ ~calls[c].success =>
                   calls[c].attempts[Len(calls[c].attempts)].delay = 0

C3_Witness ==
    \E c \in Callers :
        /\ Returned(c) /\ calls[c].success /\ ~calls[c].config.jitter
        /\ calls[c].config.maxAttempts = 3 /\ calls[c].config.baseDelay = 100
        /\ calls[c].config.backoffFactor = 2
        /\ Len(calls[c].attempts) = 2
        /\ calls[c].attempts[1].delay = 100 /\ calls[c].attempts[2].delay = 200

\* C4: execute never raises when the retries are exhausted: it returns an
\* outcome whose result is present iff success, whose error is present iff not
\* success, and on failure the error is that of the last attempt record.
C4_StructuredOutcome ==
    \A c \in Callers :
        /\ calls[c].pc # "unexpectedEnd"
        /\ Returned(c) =>
              /\ calls[c].hasResult <=> calls[c].success
              /\ calls[c].hasError <=> ~calls[c].success
              /\ ~calls[c].success =>
                    /\ Len(calls[c].attempts) >= 1
                    /\ calls[c].error = calls[c].attempts[Len(calls[c].attempts)].error

C4_Witness ==
    \E c \in Callers :
        /\ Returned(c) /\ ~calls[c].success
        /\ Len(calls[c].attempts) = 2
        /\ calls[c].attempts[1].error # calls[c].attempts[2].error
        /\ calls[c].error = calls[c].attempts[2].error

----------------------------------------------------------------------------
(* Claims about the circuit breaker *)

\* caller c makes a call in this step
Starts(c) == calls[c].pc \in Startable /\ calls'[c] # calls[c]

OpenWithinCooldown(key) ==
    /\ Phase(circuitStates, key) = "open"
    /\ now - circuitStates[key].lastFailure <= CooldownMs

\* C6: a call on key K that starts while K is open and no more than the 60 s
\* cooldown has elapsed since K's last failure fails with the circuit-open
\* error: the operation is not invoked and no attempt record is produced.
C6_OpenCircuitRejects ==
    [][\A c \in Callers :
          (Starts(c) /\ OpenWithinCooldown(calls'[c].key)) =>
              /\ calls'[c].pc = "rejected"
              /\ calls'[c].invoked = 0
              /\ calls'[c].attempts = << >>]_vars

C6_Witness ==
    \E c \in Callers :
        /\ calls[c].pc = "rejected"
        /\ Phase(circuitStates, calls[c].key) = "open"
        /\ now - circuitStates[calls[c].key].lastFailure = CooldownMs

\* C7: the failure counter of K is the number of failed call outcomes since the
\* last successful one (one increment per call, a success resets it to 0 and
\* the phase to closed), and a recorded failure opens the circuit exactly when
\* the counter has reached 5: up to 4 failures leave it closed.
C7_FailureCounter ==
    [][\A k \in Keys :
          LET before == Failures(circuitStates, k)
              after == Failures(circuitStates', k)
          IN  /\ after = consecFailed'[k]
              /\ after # before =>
                    \/ after = 0 /\ Phase(circuitStates', k) = "closed"
                    \/ /\ after = before + 1
                       /\ Phase(circuitStates', k) =
                              IF after >= FailureThreshold THEN "open" ELSE "closed"
              /\ after < FailureThreshold => Phase(circuitStates', k) = "closed"]_vars

C7_Witness ==
    \E k \in Keys :
        /\ Failures(circuitStates, k) = 5
        /\ consecFailed[k] = 5
        /\ Phase(circuitStates, k) = "open"

\* C8 as stated: while the probe admitted by the open -> half-open transition
\* is in flight, every other call on the same key is rejected.
C8_SingleProbe ==
    [][\A c \in Callers, p \in Callers :
          (/\ p # c
           /\ calls[p].pc \in InFlight /\ calls[p].probe
           /\ Starts(c) /\ calls'[c].key = calls[p].key) =>
              calls'[c].pc = "rejected"]_vars

AllowedPhaseChange(k) ==
    LET from == Phase(circuitStates, k)
        to == Phase(circuitStates', k)
    IN  \/ from = "closed" /\ to = "open" /\ Failures(circuitStates', k) = FailureThreshold
        \/ from = "open" /\ to = "half-open"
        \/ from = "half-open" /\ to = "closed"
        \/ from = "half-open" /\ to = "open"

\* C9 as stated: under any interleaving of calls on K every change of K's phase
\* is closed -> open (the count reaches 5), open -> half-open, half-open ->
\* closed or half-open -> open; never open -> closed.
C9_PhaseTransitions ==
    [][\A k \in Keys :
          Phase(circuitStates', k) # Phase(circuitStates, k) => AllowedPhaseChange(k)]_vars

----------------------------------------------------------------------------
(* defaultRetryCondition on its own: every combination of status and message *)

\* 0 stands for a status that is present and falsy
ProbeStatuses == {0, 200, 400, 404, 408, 429, 500, 501, 502, 503, 504}

ProbeMessages ==
    { << >>,
      <<"R","e","q","u","e","s","t"," ","T","i","m","e","o","u","t">>,
      <<"N","E","T","W","O","R","K">>,
      <<"C","o","n","n","e","c","t","i","o","n"," ","r","e","s","e","t">>,
      <<"R","a","t","e"," ","L","i","m","i","t">>,
      <<"S","e","r","v","e","r"," ","E","r","r","o","r">>,
      <<"S","e","r","v","i","c","e"," ","U","n","a","v","a","i","l","a","b","l","e">>,
      <<"b","a","d"," ","i","n","p","u","t">>,
      <<"n","e","t"," ","w","o","r","k">> }

ProbeErrors ==
    {MkError(TRUE, st, TRUE, m) : st \in ProbeStatuses, m \in ProbeMessages}
      \cup {MkError(FALSE, 0, TRUE, m) : m \in ProbeMessages}
      \cup {MkError(TRUE, st, FALSE, NoMessage) : st \in ProbeStatuses}
      \cup {NoError}

ClassifyInit ==
    /\ now = 0
    /\ RetryInit
    /\ CacheInit
    /\ MonitorInit
    /\ HandlerInit
    /\ maxSize = 1
    /\ classify \in {[error |-> e, done |-> FALSE, retry |-> FALSE] : e \in ProbeErrors}

Classify ==
    /\ ~classify.done
    /\ classify' = [classify EXCEPT !.done = TRUE,
                                    !.retry = defaultRetryCondition(classify.error)]
    /\ UNCHANGED <<now, retryVars, cacheVars, monitorVars, handlerVars>>

ClassifyNext == Classify

ClassifySpec == ClassifyInit /\ [][ClassifyNext]_vars

StatusListed(error) == error.hasStatus /\ error.status \in retryableStatuses

MessageListed(error) ==
    /\ error.hasMessage
    /\ \E msg \in retryableMessages : includes(toLowerCase(error.message), msg)

\* C5 as stated: an error is transient iff its status is in {408, 429, 500, 502,
\* 503, 504} or its message contains one of the listed texts, for every
\* combination of status and message.
C5_TransientIffStatusOrMessage ==
    classify.done =>
        (classify.retry <=> (StatusListed(classify.error) \/ MessageListed(classify.error)))

\* C5 (amended): an error that carries a non-zero status is transient iff the
\* status is in the set, whatever its message; an error without one (or with
\* status 0) is transient iff its message contains one of the listed texts.
C5_StatusDecidesFirst ==
    classify.done =>
        /\ StatusTruthy(classify.error) =>
              (classify.retry <=> StatusListed(classify.error))
        /\ ~StatusTruthy(classify.error) =>
              (classify.retry <=> MessageListed(classify.error))

C5_Witness ==
    /\ classify.done
    /\ classify.error.hasStatus /\ classify.error.status = 404
    /\ MessageListed(classify.error)
    /\ ~classify.retry

----------------------------------------------------------------------------
(* CacheManager *)

CacheKeySet == {"a", "b", "c"}
DefaultTTL == 1
\* the ttl argument of a call that omits it (undefined)
NoTtl == -1
\* the arguments of set.  Key "a" is set with either value and with ttl
\* omitted, 0 or 2, "b" and "c" with one value and ttl omitted
ValuesOf(key) == IF key = "a" THEN {"v1", "v2"} ELSE {"v1"}
TtlArgsOf(key) == IF key = "a" THEN {NoTtl, 0, 2} ELSE {NoTtl}

KeyIndex(entries, key) ==
    IF \E i \in 1..Len(entries) : entries[i].key = key
    THEN CHOOSE i \in 1..Len(entries) : entries[i].key = key
    ELSE 0

RemoveAt(entries, i) ==
    [j \in 1..(Len(entries) - 1) |-> IF j < i THEN entries[j] ELSE entries[j + 1]]

\* Map.prototype.delete
MapDelete(entries, key) ==
    IF KeyIndex(entries, key) = 0 THEN entries ELSE RemoveAt(entries, KeyIndex(entries, key))

\* Map.prototype.set: an existing key keeps its place, a new one goes last
MapPut(entries, entry) ==
    IF KeyIndex(entries, entry.key) = 0 THEN Append(entries, entry)
    ELSE [entries EXCEPT ![KeyIndex(entries, entry.key)] = entry]

\* the loop of evictLRU from entry i on: the first entry whose lastAccessed is
\* strictly below the running minimum replaces it
RECURSIVE OldestFrom(_, _, _, _)
OldestFrom(entries, i, oldestKey, oldestTime) ==
    IF i > Len(entries) THEN oldestKey
    ELSE IF entries[i].lastAccessed < oldestTime
         THEN OldestFrom(entries, i + 1, entries[i].key, entries[i].lastAccessed)
         ELSE OldestFrom(entries, i + 1, oldestKey, oldestTime)

\* oldestKey starts as '' and oldestTime as Date.now(); '' deletes nothing
evictLRU(entries, t) ==
    LET oldestKey == OldestFrom(entries, 1, "", t)
    IN  IF oldestKey # "" THEN MapDelete(entries, oldestKey) ELSE entries

Expired(entry, t) == t - entry.timestamp > entry.ttl

cacheSet(entries, key, value, ttl, t) ==
    \* ttl || this.defaultTTL: undefined and 0 are both falsy
    LET itemTTL == IF ttl # NoTtl /\ ttl # 0 THEN ttl ELSE DefaultTTL
        room == IF Len(entries) >= maxSize THEN evictLRU(entries, t) ELSE entries
    IN  MapPut(room, [key |-> key, value |-> value, timestamp |-> t, ttl |-> itemTTL,
                      accessCount |-> 0, lastAccessed |-> t])

Set(key, value, ttl) ==
    /\ cache' = cacheSet(cache, key, value, ttl, now)
    /\ ret' = NoRet
    /\ UNCHANGED <<now, stats, maxSize, exported, retryVars, classify, monitorVars, handlerVars>>

Get(key) ==
    /\ stats.hits + stats.misses < MaxGets
    /\ LET i == KeyIndex(cache, key)
       IN  IF i = 0
           THEN /\ stats' = [stats EXCEPT !.misses = @ + 1]
                /\ ret' = [NoRet EXCEPT !.op = "get"]
                /\ cache' = cache
           ELSE IF Expired(cache[i], now)
           THEN /\ cache' = MapDelete(cache, key)
                /\ stats' = [stats EXCEPT !.misses = @ + 1]
                /\ ret' = [NoRet EXCEPT !.op = "get"]
           ELSE /\ cache' = [cache EXCEPT ![i].accessCount = @ + 1,
                                          ![i].lastAccessed = now]
                /\ stats' = [stats EXCEPT !.hits = @ + 1]
                /\ ret' = [op |-> "get", found |-> TRUE, value |-> cache[i].value]
    /\ UNCHANGED <<now, maxSize, exported, retryVars, classify, monitorVars, handlerVars>>

HasExpiresAtTtl(key) ==
    /\ LET i == KeyIndex(cache, key)
       IN  IF i = 0
           THEN /\ cache' = cache
                /\ ret' = [NoRet EXCEPT !.op = "has"]
           ELSE IF now - cache[i].timestamp >= cache[i].ttl
           THEN /\ cache' = MapDelete(cache, key)
                /\ ret' = [NoRet EXCEPT !.op = "has"]
           ELSE /\ cache' = cache
                /\ ret' = [NoRet EXCEPT !.op = "has", !.found = TRUE]
    /\ UNCHANGED <<now, stats, maxSize, exported, retryVars, classify, monitorVars, handlerVars>>

Has(key) ==
    /\ LET i == KeyIndex(cache, key)
       IN  IF i = 0
           THEN /\ cache' = cache
                /\ ret' = [NoRet EXCEPT !.op = "has"]
           ELSE IF Expired(cache[i], now)
           THEN /\ cache' = MapDelete(cache, key)
                /\ ret' = [NoRet EXCEPT !.op = "has"]
           ELSE /\ cache' = cache
                /\ ret' = [NoRet EXCEPT !.op = "has", !.found = TRUE]
    /\ UNCHANGED <<now, stats, maxSize, exported, retryVars, classify, monitorVars, handlerVars>>

Delete(key) ==
    /\ cache' = MapDelete(cache, key)
    /\ ret' = NoRet
    /\ UNCHANGED <<now, stats, maxSize, exported, retryVars, classify, monitorVars, handlerVars>>

Clear ==
    /\ cache' = << >>
    /\ stats' = [hits |-> 0, misses |-> 0]
    /\ ret' = NoRet
    /\ UNCHANGED <<now, maxSize, exported, retryVars, classify, monitorVars, handlerVars>>

\* keysToDelete, then the deletes
\* >= in place of >: an entry is removed already when exactly its ttl has passed
cleanupAtTtl(entries, t) == SelectSeq(entries, LAMBDA e : t - e.timestamp < e.ttl)

cleanup(entries, t) == SelectSeq(entries, LAMBDA e : ~Expired(e, t))

\* the sweep of the interval timer.  ret is history: found tells whether
\* keysToDelete held a key
Sweep ==
    /\ cache' = cleanup(cache, now)
    /\ ret' = [NoRet EXCEPT !.op = "cleanup", !.found = (cleanup(cache, now) # cache)]
    /\ UNCHANGED <<now, stats, maxSize, exported, retryVars, classify, monitorVars, handlerVars>>

\* the loop of import from item i on: an item is restored when
\* now - timestamp < ttl, with lastAccessed = now
RECURSIVE importFrom(_, _, _, _)
importFrom(entries, data, i, t) ==
    IF i > Len(data) THEN entries
    ELSE importFrom(
            IF t - data[i].timestamp < data[i].ttl
            THEN MapPut(entries, [key |-> data[i].key, value |-> data[i].value,
                                  timestamp |-> data[i].timestamp, ttl |-> data[i].ttl,
                                  accessCount |-> data[i].accessCount,
                                  lastAccessed |-> t])
            ELSE entries,
            data, i + 1, t)

\* the items of an exported record: key, value, timestamp, ttl, accessCount
ImportItems(t) ==
    [key : {"a"}, value : {"v1"}, timestamp : {0, t}, ttl : {DefaultTTL, 2},
     accessCount : {1}]

\* the records handed to import: an item for "a", alone or followed by one for "b"
ImportData(t) ==
    {<<item>> : item \in ImportItems(t)}
      \cup {<<item, [key |-> "b", value |-> "v1", timestamp |-> 0, ttl |-> DefaultTTL,
                     accessCount |-> 0]>> : item \in ImportItems(t)}

Import(data) ==
    /\ cache' = importFrom(cache, data, 1, now)
    /\ ret' = NoRet
    /\ UNCHANGED <<now, stats, maxSize, exported, retryVars, classify, monitorVars, handlerVars>>

CacheTick ==
    /\ now < MaxCacheNow
    /\ now' = now + 1
    /\ UNCHANGED <<cacheVars, retryVars, classify, monitorVars, handlerVars>>

CacheSpecInit ==
    /\ now = 0
    /\ RetryInit
    /\ classify = [error |-> NoError, done |-> FALSE, retry |-> FALSE]
    /\ CacheInit
    /\ MonitorInit
    /\ HandlerInit
    /\ maxSize = MaxSizeArg

CacheNext ==
    \/ \E key \in CacheKeySet :
           \E value \in ValuesOf(key), ttl \in TtlArgsOf(key) : Set(key, value, ttl)
    \/ \E key \in CacheKeySet : Get(key)
    \/ \E key \in CacheKeySet : Has(key)
    \/ \E key \in CacheKeySet : Delete(key)
    \/ Clear
    \/ Sweep
    \/ \E data \in ImportData(now) : Import(data)
    \/ CacheTick

CacheSpec == CacheSpecInit /\ [][CacheNext]_vars

\* the store read and checked for keys as two keys are set, deleted and swept
AccessKeys == {"a", "b"}

AccessNext ==
    \/ \E key \in AccessKeys :
           \E value \in ValuesOf(key), ttl \in TtlArgsOf(key) : Set(key, value, ttl)
    \/ \E key \in AccessKeys : Get(key)
    \/ \E key \in AccessKeys : Has(key)
    \/ \E key \in AccessKeys : Delete(key)
    \/ Clear
    \/ Sweep
    \/ CacheTick

AccessSpec == CacheSpecInit /\ [][AccessNext]_vars

\* C10 as stated: the number of stored entries never exceeds maxSize, whatever
\* the clock values at which set, get, has, delete, clear, import and the sweep
\* run.
C10_SizeWithinMaxSize == Len(cache) <= maxSize

\* a step that is a call of set on key
SetsKey(key) == \E value \in ValuesOf(key), ttl \in TtlArgsOf(key) : Set(key, value, ttl)

\* the entries other than the one for key, in map order
Others(entries, key) == SelectSeq(entries, LAMBDA e : e.key # key)

\* C11 as stated: a set of a new key that finds the store at capacity removes
\* exactly one existing entry, one whose lastAccessed is the smallest, and
\* leaves maxSize entries.
C11_SetEvictsOneLeastRecent ==
    [][\A key \in CacheKeySet :
          (SetsKey(key) /\ KeyIndex(cache, key) = 0 /\ Len(cache) = maxSize) =>
              /\ Len(cache') = maxSize
              /\ \E i \in 1..Len(cache) :
                     /\ Others(cache', key) = RemoveAt(cache, i)
                     /\ \A j \in 1..Len(cache) :
                            cache[i].lastAccessed <= cache[j].lastAccessed]_vars

\* C12 as stated: a set on a key that is already stored overwrites that entry
\* and leaves every other entry and the number of entries unchanged, also when
\* the store is full.
C12_OverwriteKeepsOthers ==
    [][\A key \in CacheKeySet :
          (SetsKey(key) /\ KeyIndex(cache, key) # 0) =>
              /\ Others(cache', key) = Others(cache, key)
              /\ Len(cache') = Len(cache)]_vars

\* C13 as stated: set(k, v, ttl) stores v with the supplied ttl (the default
\* one when ttl is omitted) from the time of the set on; a get(k) at the time
\* of the set returns v, and a get(k) made when more than that ttl has elapsed
\* returns absent and removes the entry, which no longer counts.
C13_RoundTripUntilTtl ==
    [][\A key \in CacheKeySet :
          /\ \A value \in ValuesOf(key), ttl \in TtlArgsOf(key) :
                 Set(key, value, ttl) =>
                     LET e == cache'[KeyIndex(cache', key)]
                     IN  /\ KeyIndex(cache', key) # 0
                         /\ e.value = value
                         /\ e.timestamp = now
                         /\ e.ttl = IF ttl = NoTtl THEN DefaultTTL ELSE ttl
          /\ (Get(key) /\ KeyIndex(cache, key) # 0) =>
                 LET e == cache[KeyIndex(cache, key)]
                 IN  /\ e.timestamp = now => ret'.found /\ ret'.value = e.value
                     /\ now - e.timestamp > e.ttl =>
                            /\ ~ret'.found
                            /\ KeyIndex(cache', key) = 0
                            /\ Len(cache') = Len(cache) - 1]_vars

\* a rate is kept as the exact fraction num / den
Rate(part, total) ==
    IF total > 0 THEN [num |-> part * 100, den |-> total] ELSE [num |-> 0, den |-> 1]

getStatsCountsMissesAsHits(entries, st) ==
    [totalItems |-> Len(entries),
     hitRate |-> Rate(st.misses, st.hits + st.misses),
     missRate |-> Rate(st.misses, st.hits + st.misses),
     totalHits |-> st.hits,
     totalMisses |-> st.misses]

\* getStats without its memoryUsage estimate
getStats(entries, st) ==
    [totalItems |-> Len(entries),
     hitRate |-> Rate(st.hits, st.hits + st.misses),
     missRate |-> Rate(st.misses, st.hits + st.misses),
     totalHits |-> st.hits,
     totalMisses |-> st.misses]

\* C14: a get of a key that is not stored or is expired returns absent and
\* adds one miss; any other get returns the stored value, adds one hit, adds
\* one to the entry's accessCount and sets its lastAccessed to now.  No other
\* operation but clear changes the counters, and getStats reports them with
\* hitRate = 100 * hits / (hits + misses), 0 when there was no get.
C14_HitMissAccounting ==
    [][/\ \A key \in CacheKeySet :
             Get(key) =>
                 LET i == KeyIndex(cache, key)
                 IN  IF i = 0 \/ (i # 0 /\ now - cache[i].timestamp > cache[i].ttl)
                     THEN /\ ~ret'.found
                          /\ stats' = [hits |-> stats.hits, misses |-> stats.misses + 1]
                     ELSE /\ ret'.found /\ ret'.value = cache[i].value
                          /\ stats' = [hits |-> stats.hits + 1, misses |-> stats.misses]
                          /\ KeyIndex(cache', key) = i
                          /\ cache'[i].accessCount = cache[i].accessCount + 1
                          /\ cache'[i].lastAccessed = now
       /\ stats' # stats => Clear \/ \E key \in CacheKeySet : Get(key)
       /\ LET s == getStats(cache', stats')
              H == stats'.hits
              M == stats'.misses
          IN  /\ s.totalHits = H
              /\ s.totalMisses = M
              /\ IF H + M = 0 THEN s.hitRate.num = 0
                 ELSE s.hitRate.num * (H + M) = 100 * H * s.hitRate.den]_vars

C14_Witness ==
    /\ stats.hits = 1
    /\ stats.misses = 1
    /\ ret.op = "get"
    /\ ret.found
    /\ \E i \in 1..Len(cache) : cache[i].accessCount = 1 /\ cache[i].lastAccessed = now
    /\ getStats(cache, stats).hitRate = [num |-> 100, den |-> 2]

\* C15: has(key) returns true exactly when key is stored and not expired, which
\* is when a get(key) at the same instant returns a value; it leaves the
\* hit/miss counters and every other entry as they are, and the entry for key
\* is either left as it is or, when it is expired, removed.
C15_HasIsGetWithoutAccounting ==
    [][\A key \in CacheKeySet :
          Has(key) =>
              LET i == KeyIndex(cache, key)
                  live == i # 0 /\ ~(now - cache[i].timestamp > cache[i].ttl)
              IN  /\ ret'.found = live
                  /\ stats' = stats
                  /\ Others(cache', key) = Others(cache, key)
                  /\ IF live THEN cache' = cache ELSE KeyIndex(cache', key) = 0]_vars

C15_Witness ==
    /\ ret.op = "has"
    /\ ret.found
    /\ stats.hits = 1
    /\ \E i \in 1..Len(cache) :
           /\ cache[i].accessCount = 1
           /\ cache[i].lastAccessed < now
           /\ now - cache[i].timestamp = cache[i].ttl

-----------------------------------------------------------------------------
(* CacheManager.export and the import of what it returned *)

\* export: value, timestamp, ttl and accessCount of every entry, under its key
exportData(entries) ==
    [i \in 1..Len(entries) |->
        [key |-> entries[i].key, value |-> entries[i].value,
         timestamp |-> entries[i].timestamp, ttl |-> entries[i].ttl,
         accessCount |-> entries[i].accessCount]]

Export ==
    /\ exported' = exportData(cache)
    /\ ret' = NoRet
    /\ UNCHANGED <<now, cache, stats, maxSize, retryVars, classify, monitorVars, handlerVars>>

\* two keys are set, read, deleted, exported and imported back as time passes
TransferKeys == {"a", "b"}

TransferNext ==
    \/ \E key \in TransferKeys :
           \E ttl \in TtlArgsOf(key) : Set(key, "v1", ttl)
    \/ \E key \in TransferKeys : Get(key)
    \/ \E key \in TransferKeys : Delete(key)
    \/ Export
    \/ Import(exported)
    \/ CacheTick

TransferSpec == CacheSpecInit /\ [][TransferNext]_vars

\* the entry stored under key, or the empty tuple when there is none
EntryOf(entries, key) ==
    IF KeyIndex(entries, key) = 0 THEN << >> ELSE entries[KeyIndex(entries, key)]

\* C16 as stated: an import at time now of the exported data restores every
\* exported entry that is not expired under the rule of get (expired iff
\* now - timestamp > ttl) with its value, timestamp, ttl and accessCount and
\* with lastAccessed = now, skips the expired ones, and touches no other key.
C16_ImportRestoresUnexpired ==
    [][Import(exported) =>
          /\ \A i \in 1..Len(exported) :
                 LET d == exported[i]
                 IN  IF now - d.timestamp > d.ttl
                     THEN EntryOf(cache', d.key) = EntryOf(cache, d.key)
                     ELSE EntryOf(cache', d.key) =
                              [key |-> d.key, value |-> d.value,
                               timestamp |-> d.timestamp, ttl |-> d.ttl,
                               accessCount |-> d.accessCount, lastAccessed |-> now]
          /\ \A key \in CacheKeySet :
                 (\A i \in 1..Len(exported) : exported[i].key # key) =>
                     EntryOf(cache', key) = EntryOf(cache, key)]_vars

-----------------------------------------------------------------------------
(* PerformanceMonitor: the two logs, their caps and the age sweep *)

\* the caps of the two logs (1000 and 500 in the source) and the length of
\* recentErrors (20 in the source), scaled down so that the logs overflow
maxMetrics == 2
maxErrors == 2
RecentErrorCount == 1

HourMs == 3600000
DayMs == 24 * HourMs
WeekMs == 7 * DayMs

\* Date.now() at the calls of the monitor
MonitorTimes == {0, HourMs, DayMs, WeekMs + 1}

\* what a finish closure records: operation, duration and success.  error and
\* metadata are carried along unread and are left out
MetricKinds ==
    {[operation |-> "load", duration |-> 100, success |-> TRUE],
     [operation |-> "load", duration |-> 5000, success |-> FALSE],
     [operation |-> "save", duration |-> 2200, success |-> TRUE]}

\* the severities of logged errors; message, context, userAgent and url are
\* left out of an entry
Severities == {"critical", "high", "medium"}

\* Array.prototype.slice(-n) for n > 0
LastN(log, n) == IF Len(log) <= n THEN log ELSE SubSeq(log, Len(log) - n + 1, Len(log))

addMetricKeepsOldest(log, metric) ==
    LET pushed == Append(log, metric)
    IN  IF Len(pushed) > maxMetrics THEN SubSeq(pushed, 1, maxMetrics) ELSE pushed

addMetric(log, metric) ==
    LET pushed == Append(log, metric)
    IN  IF Len(pushed) > maxMetrics THEN LastN(pushed, maxMetrics) ELSE pushed

\* the closure returned by startOperation, called at time now
FinishOperation(kind) ==
    /\ metrics' = addMetric(metrics, [timestamp |-> now, operation |-> kind.operation,
                                      duration |-> kind.duration, success |-> kind.success])
    /\ report' = NoReport
    /\ UNCHANGED <<now, errors, retryVars, classify, cacheVars, handlerVars>>

\* logError up to sendCriticalError, which only writes to the console
logError(log, entry) ==
    LET pushed == Append(log, entry)
    IN  IF Len(pushed) > maxErrors THEN LastN(pushed, maxErrors) ELSE pushed

LogError(severity) ==
    /\ errors' = logError(errors, [timestamp |-> now, severity |-> severity])
    /\ report' = NoReport
    /\ UNCHANGED <<now, metrics, retryVars, classify, cacheVars, handlerVars>>

\* the filter of cleanup: entries at least as recent as the cutoff stay
monitorCleanup(log, t, maxAge) == SelectSeq(log, LAMBDA e : e.timestamp >= t - maxAge)

\* the hourly cleanup() with its default maxAge of 7 days
MonitorSweep ==
    /\ metrics' = monitorCleanup(metrics, now, WeekMs)
    /\ errors' = monitorCleanup(errors, now, WeekMs)
    /\ report' = NoReport
    /\ UNCHANGED <<now, retryVars, classify, cacheVars, handlerVars>>

MonitorTick(t) ==
    /\ now < t
    /\ now' = t
    /\ report' = NoReport
    /\ UNCHANGED <<metrics, errors, retryVars, classify, cacheVars, handlerVars>>

-----------------------------------------------------------------------------
(* PerformanceMonitor.getPerformanceStats.  A quotient is kept as the exact
   fraction num / den *)

Frac(n, d) == [num |-> n, den |-> d]

RECURSIVE SumDurations(_, _)
SumDurations(log, i) ==
    IF i > Len(log) THEN 0 ELSE log[i].duration + SumDurations(log, i + 1)

\* sort((a, b) => b.duration - a.duration), which is stable: the metrics from
\* i on are inserted into sorted behind those of the same or a longer duration
RECURSIVE sortByDuration(_, _, _)
sortByDuration(log, i, sorted) ==
    IF i > Len(log) THEN sorted
    ELSE LET k == Len(SelectSeq(sorted, LAMBDA m : m.duration >= log[i].duration))
         IN  sortByDuration(log, i + 1,
                            SubSeq(sorted, 1, k) \o <<log[i]>>
                                \o SubSeq(sorted, k + 1, Len(sorted)))

RECURSIVE runningAverageCountsAhead(_, _, _)
runningAverageCountsAhead(mine, i, avgTime) ==
    IF i > Len(mine) THEN avgTime
    ELSE runningAverageCountsAhead(mine, i + 1,
                                   Frac(avgTime.num * i + mine[i].duration * avgTime.den,
                                        avgTime.den * (i + 1)))

\* breakdown.avgTime over the metrics of one operation, from the i-th on:
\* avgTime = (avgTime * (count - 1) + duration) / count with count = i
RECURSIVE runningAverage(_, _, _)
runningAverage(mine, i, avgTime) ==
    IF i > Len(mine) THEN avgTime
    ELSE runningAverage(mine, i + 1,
                        Frac(avgTime.num * (i - 1) + mine[i].duration * avgTime.den,
                             avgTime.den * i))

\* getPerformanceStats without slowestOperations.  The breakdown of an
\* operation is built from its metrics in the order of the sorted array
getPerformanceStats(log, t, timeRange) ==
    LET cutoff == t - timeRange
        recentMetrics == SelectSeq(log, LAMBDA m : m.timestamp >= cutoff)
        totalOperations == Len(recentMetrics)
        successfulOperations == Len(SelectSeq(recentMetrics, LAMBDA m : m.success))
        totalTime == SumDurations(recentMetrics, 1)
        sorted == sortByDuration(recentMetrics, 1, << >>)
        Of(operation) == SelectSeq(sorted, LAMBDA m : m.operation = operation)
    IN  [totalOperations |-> totalOperations,
         successRate |-> IF totalOperations > 0
                         THEN Frac(successfulOperations * 100, totalOperations)
                         ELSE Frac(0, 1),
         averageResponseTime |-> IF totalOperations > 0
                                 THEN Frac(totalTime, totalOperations)
                                 ELSE Frac(0, 1),
         operationBreakdown |->
             [operation \in {recentMetrics[i].operation : i \in 1..totalOperations} |->
                 [count |-> Len(Of(operation)),
                  avgTime |-> runningAverage(Of(operation), 1, Frac(0, 1)),
                  successRate |-> Frac(Len(SelectSeq(Of(operation), LAMBDA m : m.success)) * 100,
                                       Len(Of(operation)))]]]

\* the timeRange arguments of getPerformanceStats; a day is the default
TimeRanges == {HourMs, DayMs}

QueryPerformance(timeRange) ==
    /\ report' = [op |-> "getPerformanceStats", timeRange |-> timeRange,
                  result |-> getPerformanceStats(metrics, now, timeRange)]
    /\ UNCHANGED <<now, metrics, errors, retryVars, classify, cacheVars, handlerVars>>

-----------------------------------------------------------------------------
(* PerformanceMonitor.getErrorStats and generateReport *)

\* the passes of the trend loop before which the clock may advance by one
\* millisecond: every pass reads Date.now() anew.  24 is no advance at all
TickPoints == {0, 12, 24}

\* getErrorStats without errorsByContext.  errorsBySeverity has a key for the
\* severities that occur in the window only.  Pass i of the loop unshifts
\* {hour: 23 - i}, so the pass that fills place k of errorTrends is i = 24 - k
getErrorStats(log, t, timeRange, tickAt) ==
    LET cutoff == t - timeRange
        recentErrors == SelectSeq(log, LAMBDA e : e.timestamp >= cutoff)
        Trend(i) ==
            LET clock == IF i >= tickAt THEN t + 1 ELSE t
                hourStart == clock - (i + 1) * HourMs
                hourEnd == clock - i * HourMs
            IN  [hour |-> 23 - i,
                 count |-> Len(SelectSeq(recentErrors,
                                   LAMBDA e : e.timestamp >= hourStart /\ e.timestamp < hourEnd))]
    IN  [totalErrors |-> Len(recentErrors),
         errorsBySeverity |->
             [severity \in {recentErrors[i].severity : i \in 1..Len(recentErrors)} |->
                 Len(SelectSeq(recentErrors, LAMBDA e : e.severity = severity))],
         recentErrors |-> LastN(recentErrors, RecentErrorCount),
         errorTrends |-> [k \in 1..24 |-> Trend(24 - k)]]

QueryErrors(tickAt) ==
    /\ report' = [op |-> "getErrorStats",
                  result |-> getErrorStats(errors, now, DayMs, tickAt)]
    /\ UNCHANGED <<now, metrics, errors, retryVars, classify, cacheVars, handlerVars>>

\* a number that is NaN, or the fraction num / den
NaN == [nan |-> TRUE, num |-> 0, den |-> 1]
Number(n, d) == [nan |-> FALSE, num |-> n, den |-> d]

\* healthScore over the denominator d = 100 * successRate.den *
\* averageResponseTime.den.  errorsBySeverity.critical and .high are undefined
\* when the window holds no such error, undefined * 10 is NaN, and NaN goes
\* through -=, Math.min and Math.max
healthScoreOf(performance, errs) ==
    IF ~({"critical", "high"} \subseteq DOMAIN errs.errorsBySeverity) THEN NaN
    ELSE LET sr == performance.successRate
             avg == performance.averageResponseTime
             d == 100 * sr.den * avg.den
             score == 100 * d
                      - Max(0, (95 * sr.den - sr.num) * 2 * avg.den * 100)
                      - Max(0, (avg.num - 2000 * avg.den) * sr.den)
                      - errs.errorsBySeverity["critical"] * 10 * d
                      - errs.errorsBySeverity["high"] * 5 * d
         IN  Number(Max(0, Min(100 * d, score)), d)

\* generateReport without its recommendations
generateReport(ms, es, t, tickAt) ==
    LET performance == getPerformanceStats(ms, t, DayMs)
        errs == getErrorStats(es, t, DayMs, tickAt)
    IN  [performance |-> performance,
         errors |-> errs,
         healthScore |-> healthScoreOf(performance, errs)]

GenerateReport(tickAt) ==
    /\ report' = [op |-> "generateReport",
                  result |-> generateReport(metrics, errors, now, tickAt)]
    /\ UNCHANGED <<now, metrics, errors, retryVars, classify, cacheVars, handlerVars>>

MonitorNext ==
    \/ \E kind \in MetricKinds : FinishOperation(kind)
    \/ \E severity \in Severities : LogError(severity)
    \/ MonitorSweep
    \/ \E timeRange \in TimeRanges : QueryPerformance(timeRange)
    \/ \E tickAt \in TickPoints : QueryErrors(tickAt)
    \/ \E tickAt \in TickPoints : GenerateReport(tickAt)
    \/ \E t \in MonitorTimes : MonitorTick(t)

MonitorSpec == Init /\ [][MonitorNext]_vars

\* the metrics log alone, queried over both windows
MetricsNext ==
    \/ \E kind \in MetricKinds : FinishOperation(kind)
    \/ MonitorSweep
    \/ \E timeRange \in TimeRanges : QueryPerformance(timeRange)
    \/ \E t \in MonitorTimes : MonitorTick(t)

MetricsSpec == Init /\ [][MetricsNext]_vars

\* both logs filled past their caps with two kinds of entry each, swept and
\* queried with the default window under a steady clock
RetentionKinds == {kind \in MetricKinds : kind.operation = "load"}
RetentionSeverities == {"critical", "medium"}

RetentionNext ==
    \/ \E kind \in RetentionKinds : FinishOperation(kind)
    \/ \E severity \in RetentionSeverities : LogError(severity)
    \/ MonitorSweep
    \/ QueryPerformance(DayMs)
    \/ QueryErrors(24)
    \/ GenerateReport(24)
    \/ \E t \in MonitorTimes : MonitorTick(t)

RetentionSpec == Init /\ [][RetentionNext]_vars

-----------------------------------------------------------------------------
(* Claims about PerformanceMonitor *)

\* log is what is left of older after dropping some of its oldest entries
IsSuffix(log, older) ==
    /\ Len(log) <= Len(older)
    /\ log = SubSeq(older, Len(older) - Len(log) + 1, Len(older))

\* a step that is a query of the monitor: only a query leaves a report
MonitorQuery == report'.op # "none"

\* log has, in the step, lost oldest entries only, or gained one entry at its
\* end after losing just the oldest entries beyond the cap
KeptInOrder(log, after, cap, Recorded) ==
    IF Recorded
    THEN /\ IsSuffix(after, Append(log, after[Len(after)]))
         /\ after[Len(after)].timestamp = now
         /\ Len(after) = Min(Len(log) + 1, cap)
    ELSE IsSuffix(after, log)

\* C17: after every finish-closure call, logError call, query and age sweep
\* the monitor holds at most maxMetrics metrics and maxErrors errors; a call
\* appends its entry at the end and drops just the oldest entries beyond the
\* cap, a sweep keeps exactly the entries of the last 7 days, which drops oldest
\* entries only, and a query leaves both logs as they are.
C17_LogsCappedInRecordedOrder ==
    [][/\ Len(metrics') <= maxMetrics
       /\ Len(errors') <= maxErrors
       /\ KeptInOrder(metrics, metrics', maxMetrics,
                      \E kind \in MetricKinds : FinishOperation(kind))
       /\ KeptInOrder(errors, errors', maxErrors,
                      \E severity \in Severities : LogError(severity))
       /\ MonitorQuery => metrics' = metrics /\ errors' = errors
       /\ MonitorSweep =>
              /\ metrics' = SelectSeq(metrics, LAMBDA m : now - m.timestamp <= WeekMs)
              /\ errors' = SelectSeq(errors, LAMBDA e : now - e.timestamp <= WeekMs)]_vars

C17_Witness ==
    /\ Len(metrics) = maxMetrics
    /\ Len(errors) = maxErrors
    /\ metrics[1].timestamp = HourMs
    /\ errors[1].timestamp = DayMs
    /\ now = WeekMs + 1
    /\ report.op = "generateReport"

\* the entries of a log inside the 24-hour window that ends at now
InWindow(log) == SelectSeq(log, LAMBDA e : now - e.timestamp <= DayMs)

\* 100 * n times clamp(100 - 2 * max(0, 95 - successRate)
\* - max(0, (averageResponseTime - 2000) / 100) - 10 * critical - 5 * high, 0, 100),
\* where n is the number of metrics in the window (1 when there is none) and a
\* severity without errors counts as 0
ExpectedHealth ==
    LET recent == InWindow(metrics)
        n == Max(1, Len(recent))
        successes == Len(SelectSeq(recent, LAMBDA m : m.success))
        critical == Len(SelectSeq(InWindow(errors), LAMBDA e : e.severity = "critical"))
        high == Len(SelectSeq(InWindow(errors), LAMBDA e : e.severity = "high"))
        score == 100 * 100 * n
                 - Max(0, 2 * (95 * 100 * n - 100 * 100 * successes))
                 - Max(0, SumDurations(recent, 1) - 2000 * n)
                 - (10 * critical + 5 * high) * 100 * n
    IN  Frac(Max(0, Min(100 * 100 * n, score)), 100 * n)

\* C18 as stated: the healthScore returned by generateReport is a number in
\* [0, 100], equal to the clamped formula with a severity without errors
\* counted as 0, also for an empty monitor.
C18_HealthScoreIsClampedFormula ==
    report.op = "generateReport" =>
        LET h == report.result.healthScore
        IN  /\ ~h.nan
            /\ 0 <= h.num /\ h.num <= 100 * h.den
            /\ h.num * ExpectedHealth.den = ExpectedHealth.num * h.den

RECURSIVE SumCounts(_, _)
SumCounts(trends, k) ==
    IF k > Len(trends) THEN 0 ELSE trends[k].count + SumCounts(trends, k + 1)

\* the errors of a window whose age at now is strictly inside, or inside or at
\* the ends of, the hour that began hoursAgo + 1 hours ago
StrictlyInHour(window, hoursAgo) ==
    Len(SelectSeq(window, LAMBDA e : /\ now - e.timestamp > hoursAgo * HourMs
                               /\ now - e.timestamp < (hoursAgo + 1) * HourMs))
WithinHour(window, hoursAgo) ==
    Len(SelectSeq(window, LAMBDA e : /\ now - e.timestamp >= hoursAgo * HourMs
                               /\ now - e.timestamp <= (hoursAgo + 1) * HourMs))

\* C20 as stated: getErrorStats() returns 24 trend buckets labelled 0..23 in
\* ascending order, bucket 23 counting the errors of the most recent hour and
\* bucket 0 those of 23 to 24 hours ago; every error of the 24-hour window is
\* counted in exactly one bucket, so the counts sum to totalErrors; and
\* recentErrors is the last RecentErrorCount errors of the window in recorded
\* order.
C20_TrendBucketsPartitionWindow ==
    report.op = "getErrorStats" =>
        LET r == report.result
            window == InWindow(errors)
        IN  /\ r.totalErrors = Len(window)
            /\ Len(r.errorTrends) = 24
            /\ \A k \in 1..24 :
                   /\ r.errorTrends[k].hour = k - 1
                   /\ StrictlyInHour(window, 24 - k) <= r.errorTrends[k].count
                   /\ r.errorTrends[k].count <= WithinHour(window, 24 - k)
            /\ SumCounts(r.errorTrends, 1) = r.totalErrors
            /\ r.recentErrors = LastN(window, RecentErrorCount)

-----------------------------------------------------------------------------
(* ErrorHandler.handle.  Strings are sequences of one-character strings *)

\* the cap of errorQueue (100 in the source), scaled down so that it overflows
maxQueueSize == 2

\* what is handed to handle as error: undefined (or null), or an object with
\* any of response, status, code, name and a string message; status 0 and an
\* empty code, name or message stand for a missing property
Thrown(nullish, response, status, code, name, message) ==
    [nullish |-> nullish, response |-> response, status |-> status, code |-> code,
     name |-> name, message |-> message]

HandledErrors ==
    {Thrown(TRUE, FALSE, 0, "", "", << >>),
     Thrown(FALSE, FALSE, 500, "", "", << >>),
     Thrown(FALSE, TRUE, 0, "", "", << >>),
     Thrown(FALSE, FALSE, 0, "", "", <<"A","P","I"," ","k","e","y">>),
     Thrown(FALSE, FALSE, 0, "", "",
            <<"r","a","t","e"," ","l","i","m","i","t"," ","t","i","m","e","o","u","t">>),
     Thrown(FALSE, FALSE, 0, "", "", <<"n","e","t","w","o","r","k"," ","d","o","w","n">>),
     Thrown(FALSE, FALSE, 0, "NETWORK_ERROR", "", << >>),
     Thrown(FALSE, FALSE, 0, "", "ValidationError", << >>),
     Thrown(FALSE, FALSE, 0, "", "", <<"i","n","v","a","l","i","d"," ","n","a","m","e">>),
     Thrown(FALSE, FALSE, 0, "", "", <<"N","e","t","w","o","r","k">>),
     Thrown(FALSE, FALSE, 0, "", "", <<"b","o","o","m">>)}

HandledContexts ==
    {<<"c","a","l","c","u","l","a","t","i","o","n">>,
     <<"j","a","f","a","r","-","u","i">>,
     <<"u","i","-","f","o","r","m">>,
     <<"r","e","a","c","t","-","e","r","r","o","r","-","b","o","u","n","d","a","r","y">>,
     <<"u","n","k","n","o","w","n">>}

\* error?.message?.includes(pat): undefined, hence falsy, without a message
MessageIncludes(error, pat) ==
    ~error.nullish /\ error.message # << >> /\ includes(error.message, pat)

isApiError(error) ==
    \/ ~error.nullish /\ error.response
    \/ ~error.nullish /\ error.status # 0
    \/ MessageIncludes(error, <<"A","P","I">>)
    \/ MessageIncludes(error, <<"k","e","y">>)
    \/ MessageIncludes(error, <<"r","a","t","e"," ","l","i","m","i","t">>)

isNetworkError(error, onLine) ==
    \/ ~error.nullish /\ error.code = "NETWORK_ERROR"
    \/ MessageIncludes(error, <<"n","e","t","w","o","r","k">>)
    \/ MessageIncludes(error, <<"t","i","m","e","o","u","t">>)
    \/ MessageIncludes(error, <<"c","o","n","n","e","c","t","i","o","n">>)
    \/ ~onLine

isValidationError(error) ==
    \/ ~error.nullish /\ error.name = "ValidationError"
    \/ MessageIncludes(error, <<"v","a","l","i","d","a","t","i","o","n">>)
    \/ MessageIncludes(error, <<"i","n","v","a","l","i","d">>)
    \/ MessageIncludes(error, <<"r","e","q","u","i","r","e","d">>)

isRetryableApiError(error) ==
    \/ ~error.nullish /\ error.status \in retryableStatuses
    \/ MessageIncludes(error, <<"t","i","m","e","o","u","t">>)
    \/ MessageIncludes(error, <<"r","a","t","e"," ","l","i","m","i","t">>)

\* categorizeError: the type, actionable and retryable of the AppError, or a
\* TypeError where error.message is read from undefined.  The API branch is
\* entered for an object only; the network branch does not read the error
categorizeError(error, context, onLine) ==
    LET Made(type, actionable, retryable) ==
            [threw |-> FALSE, type |-> type, actionable |-> actionable,
             retryable |-> retryable]
        Reading(appError) ==
            IF error.nullish
            THEN [threw |-> TRUE, type |-> "", actionable |-> FALSE, retryable |-> FALSE]
            ELSE appError
    IN  IF isApiError(error)
        THEN Reading(Made("API_ERROR", TRUE, isRetryableApiError(error)))
        ELSE IF isNetworkError(error, onLine)
        THEN Made("NETWORK_ERROR", TRUE, TRUE)
        ELSE IF isValidationError(error)
        THEN Reading(Made("VALIDATION_ERROR", TRUE, FALSE))
        ELSE IF \/ includes(context, <<"c","a","l","c","u","l","a","t","i","o","n">>)
                \/ includes(context, <<"g","e","m","a","t","r","i","a">>)
                \/ includes(context, <<"j","a","f","a","r">>)
        THEN Reading(Made("CALCULATION_ERROR", TRUE, TRUE))
        ELSE IF \/ includes(context, <<"u","i">>)
                \/ includes(context, <<"c","o","m","p","o","n","e","n","t">>)
        THEN Reading(Made("UI_ERROR", TRUE, FALSE))
        ELSE Reading(Made("UNKNOWN_ERROR", FALSE, TRUE))

getSeverity(type) ==
    CASE type = "VALIDATION_ERROR" -> "low"
      [] type = "UI_ERROR" -> "medium"
      [] type = "NETWORK_ERROR" -> "medium"
      [] type = "API_ERROR" -> "high"
      [] type = "CALCULATION_ERROR" -> "high"
      [] type = "UNKNOWN_ERROR" -> "critical"
      [] OTHER -> "medium"

\* errorQueue after addToQueue
addToQueue(queue, appError) ==
    LET pushed == Append(queue, appError)
    IN  IF Len(pushed) > maxQueueSize THEN LastN(pushed, maxQueueSize) ELSE pushed

\* notifyUser and showUserNotification: the alert is inside the branch taken
\* for an actionable error
alerts(appError) == appError.actionable /\ appError.type = "UNKNOWN_ERROR"

\* handle: categorizeError, logError, addToQueue, notifyUser.  A TypeError of
\* categorizeError leaves handle before anything is logged
Handle(error, context, onLine) ==
    /\ LET appError == categorizeError(error, context, onLine)
       IN  IF appError.threw
           THEN /\ handled' = [outcome |-> "threw"]
                /\ UNCHANGED <<errors, errorQueue>>
           ELSE /\ errors' = logError(errors, [timestamp |-> now,
                                               severity |-> getSeverity(appError.type)])
                /\ errorQueue' = addToQueue(errorQueue, [type |-> appError.type,
                                                         retryable |-> appError.retryable])
                /\ handled' = [outcome |-> "returned", type |-> appError.type,
                               notified |-> appError.actionable,
                               alerted |-> alerts(appError)]
    /\ report' = NoReport
    /\ UNCHANGED <<now, metrics, probe, retryVars, classify, cacheVars>>

clearErrorQueue ==
    /\ errorQueue' = << >>
    /\ handled' = NotHandled
    /\ UNCHANGED <<now, probe, monitorVars, retryVars, classify, cacheVars>>

HandleNext ==
    \/ \E error \in HandledErrors, context \in HandledContexts, onLine \in BOOLEAN :
           Handle(error, context, onLine)
    \/ clearErrorQueue

HandleSpec == Init /\ [][HandleNext]_vars

\* the severity the kind of an error is logged with
SeverityOfKind ==
    [VALIDATION_ERROR |-> "low", UI_ERROR |-> "medium", NETWORK_ERROR |-> "medium",
     API_ERROR |-> "high", CALCULATION_ERROR |-> "high", UNKNOWN_ERROR |-> "critical"]

\* C21 as stated: every call of handle classifies its error into exactly one
\* of the six kinds and appends exactly one entry to the monitor's error log,
\* with the severity of that kind; an alert is raised for no kind but Unknown.
C21_OneKindOneEntryPerError ==
    [][handled'.outcome # "none" =>
          /\ handled'.outcome = "returned"
          /\ handled'.type \in DOMAIN SeverityOfKind
          /\ Len(errors') = Min(Len(errors) + 1, maxErrors)
          /\ IsSuffix(errors', Append(errors, [timestamp |-> now,
                                               severity |-> SeverityOfKind[handled'.type]]))
          /\ handled'.alerted => handled'.type = "UNKNOWN_ERROR"]_vars

-----------------------------------------------------------------------------
(* RetryManager.retryApiCall *)

networkErrors ==
    { <<"n","e","t","w","o","r","k">>,
      <<"t","i","m","e","o","u","t">>,
      <<"c","o","n","n","e","c","t","i","o","n">> }

\* the options of a call: a field that is omitted (or given as 0) is 0, and
\* includeNetworkErrors omitted is FALSE
ApiOptions ==
    [maxAttempts : {0, 5}, baseDelay : {0, 500}, includeNetworkErrors : BOOLEAN]

\* the message is matched whether or not network errors were requested
apiRetryConditionIgnoresRequest(error, options) ==
    IF StatusTruthy(error)
    THEN error.status \in retryableStatuses
    ELSE IF MessageTruthy(error)
         THEN \E err \in networkErrors : includes(toLowerCase(error.message), err)
         ELSE FALSE

\* the retryCondition of the configuration retryApiCall builds
apiRetryCondition(error, options) ==
    IF StatusTruthy(error)
    THEN error.status \in retryableStatuses
    ELSE IF options.includeNetworkErrors /\ MessageTruthy(error)
         THEN \E err \in networkErrors : includes(toLowerCase(error.message), err)
         ELSE FALSE

\* the configuration retryApiCall hands to execute; backoffFactor 1.5 is the
\* fraction 3/2
apiConfig(options) ==
    [maxAttempts |-> IF options.maxAttempts # 0 THEN options.maxAttempts ELSE 3,
     baseDelay |-> IF options.baseDelay # 0 THEN options.baseDelay ELSE 2000,
     maxDelay |-> 15000,
     backoffFactor |-> <<3, 2>>,
     jitter |-> TRUE]

ApiInit ==
    /\ now = 0
    /\ RetryInit
    /\ classify = [error |-> NoError, done |-> FALSE, retry |-> FALSE]
    /\ CacheInit
    /\ MonitorInit
    /\ errorQueue = << >>
    /\ handled = NotHandled
    /\ maxSize = 1
    /\ probe \in {[op |-> "retryApiCall", error |-> e, options |-> o,
                   done |-> FALSE, retry |-> FALSE, config |-> apiConfig(o)] :
                      e \in ProbeErrors, o \in ApiOptions}

\* retryApiCall builds its configuration and execute asks its retryCondition
\* about the error the call failed with
RetryApiCall ==
    /\ probe.op = "retryApiCall"
    /\ ~probe.done
    /\ probe' = [probe EXCEPT !.done = TRUE,
                              !.config = apiConfig(probe.options),
                              !.retry = apiRetryCondition(probe.error, probe.options)]
    /\ UNCHANGED <<now, retryVars, classify, cacheVars, monitorVars, errorQueue, handled>>

ApiNext == RetryApiCall

ApiSpec == ApiInit /\ [][ApiNext]_vars

NetworkListed(error) ==
    /\ error.hasMessage
    /\ \E err \in networkErrors : includes(toLowerCase(error.message), err)

\* C22 as stated: in the API-call profile an error is retried iff its status is
\* in {408, 429, 500, 502, 503, 504}, or network errors were requested and its
\* message contains 'network', 'timeout' or 'connection', for every
\* combination of status and message.
C22_RetriedIffStatusOrRequestedMessage ==
    (probe.op = "retryApiCall" /\ probe.done) =>
        (probe.retry <=>
            \/ StatusListed(probe.error)
            \/ probe.options.includeNetworkErrors /\ NetworkListed(probe.error))

\* C22 (amended): an error that carries a non-zero status is retried iff the
\* status is in the set, whatever its message and whatever was requested; an
\* error without one is retried iff network errors were requested and its
\* message contains one of the three texts.  The profile's configuration is
\* maxAttempts 3 and baseDelay 2000 unless given, maxDelay 15000, backoffFactor
\* 3/2, jitter on.
C22_ApiStatusDecidesFirst ==
    (probe.op = "retryApiCall" /\ probe.done) =>
        /\ StatusTruthy(probe.error) =>
              (probe.retry <=> StatusListed(probe.error))
        /\ ~StatusTruthy(probe.error) =>
              (probe.retry <=>
                  probe.options.includeNetworkErrors /\ NetworkListed(probe.error))
        /\ probe.config.maxDelay = 15000
        /\ probe.config.backoffFactor = <<3, 2>>
        /\ probe.config.jitter
        /\ probe.options.maxAttempts = 0 => probe.config.maxAttempts = 3
        /\ probe.options.baseDelay = 0 => probe.config.baseDelay = 2000

C22_Witness ==
    /\ probe.op = "retryApiCall" /\ probe.done
    /\ probe.options.includeNetworkErrors
    /\ probe.error.hasStatus /\ probe.error.status = 404
    /\ NetworkListed(probe.error)
    /\ ~probe.retry

-----------------------------------------------------------------------------
(* Claims about the circuit breaker under interleaved calls *)

\* this step calls the operation on behalf of caller c
Invokes(c) == calls'[c].invoked > calls[c].invoked

\* C23 as stated: while the circuit of a key is open and its cooldown has not
\* elapsed, no step invokes the wrapped operation on behalf of that key, the
\* later attempts of calls admitted before the circuit opened included.
C23_NoInvocationWhileOpen ==
    [][\A c \in Callers : Invokes(c) => ~OpenWithinCooldown(calls'[c].key)]_vars

\* C24: with jitter enabled, every delay execute waits lies between 90% and
\* 110% of d = min(baseDelay * backoffFactor^(attempt-1), maxDelay), is never
\* negative, and is the delay written into the attempt record of that attempt.
C24_JitteredDelayWithinTenPercent ==
    \A c \in Callers :
        calls[c].config.jitter =>
            \A i \in 1..Len(calls[c].slept) :
                LET d == ExpectedDelay(calls[c].config, i)
                    waited == calls[c].slept[i]
                IN  /\ i <= Len(calls[c].attempts)
                    /\ waited = calls[c].attempts[i].delay
                    /\ waited >= 0
                    /\ 9 * d <= 10 * waited
                    /\ 10 * waited <= 11 * d

C24_Witness ==
    \E c \in Callers :
        /\ calls[c].config.jitter /\ calls[c].config.maxDelay = 30000
        /\ calls[c].slept = <<90, 218>>
        /\ calls[c].attempts[2].delay = 218

-----------------------------------------------------------------------------
(* Claims about the sweep of the cache *)

KeysOf(entries) == {entries[i].key : i \in 1..Len(entries)}

\* C25: a sweep removes exactly the entries with now - createdAt > ttl, read
\* or not, and leaves every other entry with its access metadata, the order of
\* the entries and the hit/miss counters as they were; right after it no stored
\* entry is expired.
C25_SweepRemovesExactlyExpired ==
    [][(ret'.op = "cleanup" /\ now' = now) =>
          /\ \A i \in 1..Len(cache) :
                 (now - cache[i].timestamp > cache[i].ttl) <=> (cache[i].key \notin KeysOf(cache'))
          /\ \A j \in 1..Len(cache') :
                 \E i \in 1..Len(cache) : cache'[j] = cache[i]
          /\ \A j, k \in 1..Len(cache') :
                 j < k => KeyIndex(cache, cache'[j].key) < KeyIndex(cache, cache'[k].key)
          /\ stats' = stats /\ maxSize' = maxSize
          /\ \A j \in 1..Len(cache') : ~(now - cache'[j].timestamp > cache'[j].ttl)]_vars

\* a sweep removed an unread entry and kept one that had been read and has
\* reached, not passed, its ttl
C25_Witness ==
    /\ ret.op = "cleanup" /\ ret.found
    /\ now = 2
    /\ Len(cache) = 1
    /\ cache[1].timestamp = 0 /\ cache[1].ttl = 2 /\ cache[1].accessCount = 1
    /\ stats.hits = 1

-----------------------------------------------------------------------------
(* CacheKeys *)

\* the characters of the inputs and their code points; "U+0627" stands for the
\* one character ARABIC LETTER ALEF
CharCode(ch) ==
    CASE ch = "a" -> 97
      [] ch = "b" -> 98
      [] ch = "_" -> 95
      [] ch = "-" -> 45
      [] ch = "1" -> 49
      [] ch = "U+0627" -> 1575

Base64Chars ==
    UpperChars \o LowerChars \o <<"0","1","2","3","4","5","6","7","8","9","+","/">>

\* the base64 text of a sequence of bytes, three bytes to four characters
RECURSIVE base64(_)
base64(bytes) ==
    LET Sextet(n) == Base64Chars[n + 1]
    IN  IF bytes = << >> THEN << >>
        ELSE IF Len(bytes) = 1
        THEN <<Sextet(bytes[1] \div 4), Sextet((bytes[1] % 4) * 16), "=", "=">>
        ELSE IF Len(bytes) = 2
        THEN <<Sextet(bytes[1] \div 4),
               Sextet((bytes[1] % 4) * 16 + bytes[2] \div 16),
               Sextet((bytes[2] % 16) * 4), "=">>
        ELSE <<Sextet(bytes[1] \div 4),
               Sextet((bytes[1] % 4) * 16 + bytes[2] \div 16),
               Sextet((bytes[2] % 16) * 4 + bytes[3] \div 64),
               Sextet(bytes[3] % 64)>> \o base64(SubSeq(bytes, 4, Len(bytes)))

\* btoa throws InvalidCharacterError on a character outside Latin-1
btoa(text) ==
    IF \E i \in 1..Len(text) : CharCode(text[i]) > 255
    THEN [threw |-> TRUE, text |-> << >>]
    ELSE [threw |-> FALSE, text |-> base64([i \in 1..Len(text) |-> CharCode(text[i])])]

\* String.prototype.slice(0, n)
slice(text, n) == SubSeq(text, 1, Min(n, Len(text)))

\* a template literal: it throws when one of its parts threw
Template(parts) ==
    IF \E i \in 1..Len(parts) : parts[i].threw
    THEN [threw |-> TRUE, text |-> << >>]
    ELSE LET RECURSIVE Join(_)
             Join(i) == IF i > Len(parts) THEN << >> ELSE parts[i].text \o Join(i + 1)
         IN  [threw |-> FALSE, text |-> Join(1)]

Lit(text) == [threw |-> FALSE, text |-> text]

AI_RESPONSE(model, prompt) ==
    LET encoded == btoa(prompt)
    IN  Template(<<Lit(<<"a","i","_","r","e","s","p","o","n","s","e","_">>),
                   Lit(model), Lit(<<"_">>),
                   [encoded EXCEPT !.text = slice(encoded.text, 50)]>>)

GEMATRIA(text, method) ==
    Template(<<Lit(<<"g","e","m","a","t","r","i","a","_">>),
               Lit(method), Lit(<<"_">>), btoa(text)>>)

JAFAR(name, motherName, date) ==
    Template(<<Lit(<<"j","a","f","a","r","_">>),
               btoa(name), Lit(<<"_">>), btoa(motherName), Lit(<<"_">>), Lit(date)>>)

ZODIAC(name, motherName, date) ==
    Template(<<Lit(<<"z","o","d","i","a","c","_">>),
               btoa(name), Lit(<<"_">>), btoa(motherName), Lit(<<"_">>), Lit(date)>>)

\* the key of a request: its kind and its arguments in order
keyOf(request) ==
    CASE request.kind = "AI_RESPONSE" -> AI_RESPONSE(request.args[1], request.args[2])
      [] request.kind = "GEMATRIA" -> GEMATRIA(request.args[1], request.args[2])
      [] request.kind = "JAFAR" -> JAFAR(request.args[1], request.args[2], request.args[3])
      [] request.kind = "ZODIAC" -> ZODIAC(request.args[1], request.args[2], request.args[3])

\* the requests keys are built for.  A long prompt is 37 characters, whose
\* base64 is 49 characters and the top of a 50th, and one more; a method, a
\* model and a date may hold the separator
KeyRequests ==
    LET LongPrefix == [i \in 1..37 |-> "a"]
        Models == {<<"a">>, <<"a","_","b">>}
        Prompts == {<< >>, <<"a">>, <<"b">>, LongPrefix \o <<"a">>, LongPrefix \o <<"b">>,
                    <<"U+0627">>}
        Texts == {<< >>, <<"a">>, <<"a","b">>, <<"U+0627">>}
        Methods == {<<"a">>, <<"a","_","b">>}
        Names == {<<"a">>, <<"b">>}
        MotherNames == {<< >>, <<"a">>}
        Dates == {<<"1","-","1">>, <<"1","_","1">>}
    IN  {[kind |-> "AI_RESPONSE", args |-> <<m, p>>] : m \in Models, p \in Prompts}
          \cup {[kind |-> "GEMATRIA", args |-> <<t, m>>] : t \in Texts, m \in Methods}
          \cup {[kind |-> k, args |-> <<n, m, d>>] :
                   k \in {"JAFAR", "ZODIAC"}, n \in Names, m \in MotherNames, d \in Dates}

KeyInit ==
    /\ now = 0
    /\ RetryInit
    /\ classify = [error |-> NoError, done |-> FALSE, retry |-> FALSE]
    /\ CacheInit
    /\ MonitorInit
    /\ errorQueue = << >>
    /\ handled = NotHandled
    /\ maxSize = 1
    /\ probe \in {pair \in {[op |-> "CacheKeys", left |-> l, right |-> r, done |-> FALSE,
                            leftKey |-> Lit(<< >>), rightKey |-> Lit(<< >>)] :
                               l \in KeyRequests, r \in KeyRequests} :
                      pair.left.kind = pair.right.kind}

\* the keys of two requests of one kind are built
MakeKeys ==
    /\ probe.op = "CacheKeys"
    /\ ~probe.done
    /\ probe' = [probe EXCEPT !.done = TRUE,
                              !.leftKey = keyOf(probe.left),
                              !.rightKey = keyOf(probe.right)]
    /\ UNCHANGED <<now, retryVars, classify, cacheVars, monitorVars, errorQueue, handled>>

KeyNext == MakeKeys

KeySpec == KeyInit /\ [][KeyNext]_vars

\* C26 as stated: every constructor gives a key, identical inputs give identical
\* keys, and two requests of one kind that differ in any input give different
\* keys, whatever the length or common prefix of two prompts.
C26_KeysDeterministicInjective ==
    (probe.op = "CacheKeys" /\ probe.done) =>
        /\ ~probe.leftKey.threw /\ ~probe.rightKey.threw
        /\ (probe.left = probe.right) <=> (probe.leftKey = probe.rightKey)

\* C27: a call rejected because the circuit is open leaves the failure count,
\* the time of the last failure and the phase of that circuit as they were; and
\* a call on K that starts more than 60 s after the last recorded failure on K
\* is admitted, however many calls were rejected before it.
C27_RejectionKeepsCooldown ==
    [][\A c \in Callers :
          Starts(c) =>
              LET key == calls'[c].key
              IN  /\ calls'[c].pc = "rejected" => circuitStates' = circuitStates
                  /\ (/\ key \in DOMAIN circuitStates
                      /\ now - circuitStates[key].lastFailure > CooldownMs) =>
                         /\ calls'[c].pc = "awaitOp"
                         /\ calls'[c].invoked = 1]_vars

\* caller A is admitted after the cooldown while B's earlier call stands rejected
C27_Witness ==
    /\ calls["B"].pc = "rejected"
    /\ calls["A"].pc = "awaitOp" /\ calls["A"].probe
    /\ calls["A"].key = calls["B"].key
    /\ Phase(circuitStates, calls["A"].key) = "half-open"
    /\ now - circuitStates[calls["A"].key].lastFailure > CooldownMs

-----------------------------------------------------------------------------
(* The circuits of two keys, read and reset while calls are in flight *)

\* what getCircuitBreakerStats returns for the circuits cs at time t: of each
\* entry the model keeps isOpen, the one field that is computed; failures,
\* lastFailure and state are copies of the circuit's fields
circuitStats(cs, t) == [k \in DOMAIN cs |-> [isOpen |-> isCircuitOpen(cs, k, t).open]]

\* the circuits after the loop of getCircuitBreakerStats: isCircuitOpen(key) has
\* run once for every key, and each run writes to the entry of its key only
statsStates(cs, t) == [k \in DOMAIN cs |-> isCircuitOpen(cs, k, t).states[k]]

GetCircuitBreakerStats ==
    /\ probe' = [op |-> "getCircuitBreakerStats", stats |-> circuitStats(circuitStates, now)]
    /\ circuitStates' = statsStates(circuitStates, now)
    /\ UNCHANGED <<now, calls, consecFailed, classify, cacheVars, monitorVars,
                   errorQueue, handled>>

\* the circuits of all keys are deleted
resetCircuitBreakerClearsAll(cs, key) == EmptyMap

\* Map.prototype.delete on circuitStates
resetCircuitBreaker(cs, key) == [k \in (DOMAIN cs) \ {key} |-> cs[k]]

\* consecFailed counts the failed outcomes since the last success or reset;
\* probe is history: the last reading or reset of the circuits
ResetCircuitBreaker(key) ==
    /\ circuitStates' = resetCircuitBreaker(circuitStates, key)
    /\ consecFailed' = [consecFailed EXCEPT ![key] = 0]
    /\ probe' = [op |-> "resetCircuitBreaker", key |-> key]
    /\ UNCHANGED <<now, calls, classify, cacheVars, monitorVars, errorQueue, handled>>

ResetAllCircuitBreakers ==
    /\ circuitStates' = EmptyMap
    /\ consecFailed' = [k \in Keys |-> 0]
    /\ probe' = [op |-> "resetAllCircuitBreakers"]
    /\ UNCHANGED <<now, calls, classify, cacheVars, monitorVars, errorQueue, handled>>

\* a failure at 0, the last millisecond of its cooldown and the first after it
CircuitClock == {0, CooldownMs, CooldownMs + 1}

\* caller A makes single-attempt calls, caller B retries once
CircuitConfigOf(c) ==
    IF c = "A" THEN DefaultConfig ELSE [DefaultConfig EXCEPT !.maxAttempts = 2]

\* caller A calls on either key, caller B on k2
CircuitKeysOf(c) == IF c = "A" THEN Keys ELSE {"k2"}

CircuitNext ==
    \/ \E c \in Callers : \E key \in CircuitKeysOf(c) : Start(c, key, CircuitConfigOf(c))
    \/ \E c \in Callers : OpSucceed(c)
    \/ \E c \in Callers : OpFail(c, MkError(TRUE, 503, FALSE, NoMessage), 0)
    \/ \E c \in Callers : Wake(c)
    \/ \E c \in Callers : Finish(c)
    \/ \E t \in CircuitClock : Tick(t)
    \/ GetCircuitBreakerStats
    \/ \E key \in Keys : ResetCircuitBreaker(key)
    \/ ResetAllCircuitBreakers

CircuitSpec == Init /\ [][CircuitNext]_vars

\* C28: in every reachable state, every key that has a circuit state is closed
\* iff its failure count is below 5; an open or half-open circuit has a failure
\* count of at least 5.
C28_ClosedIffBelowThreshold ==
    \A k \in DOMAIN circuitStates :
        /\ (circuitStates[k].state = "closed") <=> (circuitStates[k].failures < 5)
        /\ circuitStates[k].state \in {"open", "half-open"} => circuitStates[k].failures >= 5

\* one circuit closed after a success that followed a cooldown, the other
\* half-open with its five failures
C28_Witness ==
    /\ DOMAIN circuitStates = Keys
    /\ circuitStates["k1"].state = "half-open" /\ circuitStates["k1"].failures = 5
    /\ circuitStates["k2"].state = "closed" /\ circuitStates["k2"].failures = 0
    /\ circuitStates["k2"].lastFailure = 0 /\ now = CooldownMs + 1

\* C29 as stated: getCircuitBreakerStats leaves the phase, the failure count
\* and the time of the last failure of every circuit as they were, also when a
\* cooldown has elapsed.
C29_StatsReadChangesNothing ==
    [][GetCircuitBreakerStats => circuitStates' = circuitStates]_vars

\* the circuit of key k is the same, or as absent, after the step as before
SameCircuit(k) ==
    /\ (k \in DOMAIN circuitStates') <=> (k \in DOMAIN circuitStates)
    /\ k \in DOMAIN circuitStates => circuitStates'[k] = circuitStates[k]

\* the key of the call of caller c that takes a step
CallKey(c) == IF calls[c].pc \in Startable THEN calls'[c].key ELSE calls[c].key

\* C30: a step of a retryWithCircuitBreaker call on key K, and
\* resetCircuitBreaker(K), leave the phase, failure count and time of the last
\* failure of every other key as they were; a call on K is rejected only when
\* the circuit of K itself is open.
C30_CircuitsIsolatedPerKey ==
    [][/\ \A c \in Callers :
              calls'[c] # calls[c] =>
                 /\ \A k \in Keys \ {CallKey(c)} : SameCircuit(k)
                 /\ (Starts(c) /\ calls'[c].pc = "rejected") =>
                        OpenWithinCooldown(CallKey(c))
       /\ \A key \in Keys :
              ResetCircuitBreaker(key) => \A k \in Keys \ {key} : SameCircuit(k)]_vars

\* the open circuit of k2, which had rejected caller A, has been reset and the
\* circuit of k1 is still open with its five failures
C30_Witness ==
    /\ probe = [op |-> "resetCircuitBreaker", key |-> "k2"]
    /\ calls["A"].pc = "rejected" /\ calls["A"].key = "k2"
    /\ DOMAIN circuitStates = {"k1"}
    /\ circuitStates["k1"].state = "open" /\ circuitStates["k1"].failures = 5

====
